---- MODULE Spec2Model ----
(***************************************************************************)
(* Model of the digits crate (src/src/lib.rs): digits_from_int,            *)
(* int_from_digits, ConversionError and the Digits<T> iterator wrapper.    *)
(*                                                                         *)
(* The generic parameter T is instantiated with the primitive integer     *)
(* types whose whole value range fits TLC's integers: u8, i8, u16, i16.    *)
(* A behaviour is one use of the library by a caller: a call of            *)
(* digits_from_int (run loop iteration by loop iteration) optionally fed   *)
(* into int_from_digits, a call of int_from_digits optionally fed into     *)
(* digits_from_int, or the construction of a Digits wrapper followed by    *)
(* next calls, inspections through deref, and the std cycle() adapter.     *)
(***************************************************************************)
EXTENDS Integers, Sequences, FiniteSets

VARIABLES
    pc,      \* where the caller is
    T,       \* the integer type the generic code is instantiated with
    n,       \* the integer passed to digits_from_int / Digits::from
    rem,     \* digits_from_int: local `rem`
    v,       \* digits_from_int: local `v`
    iters,   \* digits_from_int: completed iterations of the while loop
    ret,     \* what the first call returned
    d,       \* the digit vector passed to int_from_digits
    checks,  \* build profile of the int_from_digits call: overflow checks on?
    ret2,    \* what the chained second call returned
    digits,  \* the Digits<T> wrapper: [values, index]
    hist,    \* results of the next() calls made so far, oldest first
    seen,    \* what the last inspection through deref observed
    cyc,     \* the std::iter::Cycle adapter: [orig, iter]
    start,   \* cursor of the wrapper when cycle() was applied to it
    chist    \* results of the adapter's next() calls so far, oldest first

vars == <<pc, T, n, rem, v, iters, ret, d, checks, ret2, digits, hist, seen, cyc,
          start, chist>>

(***************************************************************************)
(* Bounds of the model.                                                    *)
(***************************************************************************)
\* integers n with |n| <= InputBound are enumerated for every type
InputBound == 1100
\* digit vectors of every length up to MaxLen are enumerated
MaxLen == 3
\* number of next() calls made on one wrapper or adapter
MaxCalls == 7

(***************************************************************************)
(* The integer types.                                                      *)
(***************************************************************************)
Types == { [bits |-> 8,  signed |-> FALSE], [bits |-> 8,  signed |-> TRUE],
           [bits |-> 16, signed |-> FALSE], [bits |-> 16, signed |-> TRUE] }

MinVal(t) == IF t.signed THEN -(2 ^ (t.bits - 1)) ELSE 0
MaxVal(t) == IF t.signed THEN 2 ^ (t.bits - 1) - 1 ELSE 2 ^ t.bits - 1
InRange(t, x) == MinVal(t) <= x /\ x <= MaxVal(t)

\* two's complement wraparound of the mathematical result x into type t
Wrap(t, x) ==
    LET m == 2 ^ t.bits
        r == x % m
    IN  IF t.signed /\ r >= m \div 2 THEN r - m ELSE r

Abs(x) == IF x < 0 THEN -x ELSE x
\* Rust's `/` and `%` on integers truncate towards zero
Div(a, b) == IF (a < 0) = (b < 0) THEN Abs(a) \div Abs(b) ELSE -(Abs(a) \div Abs(b))
Rem(a, b) == a - b * Div(a, b)

zero == 0
ten == 10

(***************************************************************************)
(* ConversionError and Result / Option values.                             *)
(***************************************************************************)
ConversionError_new(msg) == [details |-> msg]
NegativeMsg == "unable to convert from negative integer to digits"

Ok(x) == [tag |-> "Ok", seq |-> x]
Err(e) == [tag |-> "Err", err |-> e]
Some(x) == [tag |-> "Some", val |-> x]
None == [tag |-> "None"]
Value(x) == [tag |-> "Value", val |-> x]
Panic(m) == [tag |-> "Panic", msg |-> m]
NoRet == [tag |-> "NoRet"]

(***************************************************************************)
(* digits_from_int                                                         *)
(***************************************************************************)
\* mutant: the loop runs until the quotient itself is used up
LoopCond_gt(r) == r > zero

\* `while (rem / ten) > zero`
LoopCond(r) == Div(r, ten) > zero

\* mutant: the digit is pushed at the back instead of inserted at the front
LoopBody_append(s) == [rem |-> Div(s.rem, ten), v |-> s.v \o <<Rem(s.rem, ten)>>]

\* the loop body: last = rem % ten; rem = rem / ten; v.insert(0, last)
LoopBody(s) == [rem |-> Div(s.rem, ten), v |-> <<Rem(s.rem, ten)>> \o s.v]

\* mutant: the last remaining value is pushed at the back
LoopResult_append(s) == Ok(s.v \o <<s.rem>>)

\* after the loop: v.insert(0, rem); Ok(v)
LoopResult(s) == Ok(<<s.rem>> \o s.v)

RECURSIVE RunLoop(_)
RunLoop(s) == IF LoopCond(s.rem) THEN RunLoop(LoopBody(s)) ELSE s

\* mutant: the guard excludes zero
NonNegative_strict(x) == x > zero

\* the match guard `_ if n >= zero`
NonNegative(x) == x >= zero

digits_from_int(x) ==
    IF NonNegative(x)
    THEN LoopResult(RunLoop([rem |-> x, v |-> <<>>]))
    ELSE Err(ConversionError_new(NegativeMsg))

(***************************************************************************)
(* int_from_digits                                                         *)
(* Primitive integer `*` and `+` panic on overflow when the build has      *)
(* overflow checks (debug profile) and wrap when it has not (release).     *)
(* The fold below computes the wrapping result and remembers the first     *)
(* operation that overflowed.                                              *)
(***************************************************************************)
\* mutant: the digit is multiplied by ten once instead of idx times
Scale_once(t, digit, idx) ==
    IF idx = 0
    THEN [val |-> digit, ovf |-> "none"]
    ELSE [val |-> Wrap(t, digit * ten),
          ovf |-> IF InRange(t, digit * ten) THEN "none" ELSE "mul"]

\* `for _ in 0..idx { digit = digit * ten; }`
RECURSIVE Scale(_, _, _)
Scale(t, digit, idx) ==
    IF idx = 0
    THEN [val |-> digit, ovf |-> "none"]
    ELSE LET p == Scale(t, digit, idx - 1)
             raw == p.val * ten
         IN  [val |-> Wrap(t, raw),
              ovf |-> IF p.ovf # "none" THEN p.ovf
                      ELSE IF InRange(t, raw) THEN "none" ELSE "mul"]

\* mutant: the vector is consumed front to back (.rev() left out)
Reverse_missing(s) == s

\* v.into_iter().rev()
Reverse(s) == [i \in 1..Len(s) |-> s[Len(s) + 1 - i]]

\* the outer loop over v.into_iter().rev().enumerate(), from position idx on
RECURSIVE Accumulate(_, _, _, _)
Accumulate(t, rv, idx, acc) ==
    IF idx >= Len(rv)
    THEN acc
    ELSE LET sc == Scale(t, rv[idx + 1], idx)
             raw == acc.val + sc.val
             o == IF acc.ovf # "none" THEN acc.ovf
                  ELSE IF sc.ovf # "none" THEN sc.ovf
                  ELSE IF InRange(t, raw) THEN "none" ELSE "add"
         IN  Accumulate(t, rv, idx + 1, [val |-> Wrap(t, raw), ovf |-> o])

Fold(t, s) == Accumulate(t, Reverse(s), 0, [val |-> zero, ovf |-> "none"])

OverflowMsg(o) == IF o = "mul" THEN "attempt to multiply with overflow"
                  ELSE "attempt to add with overflow"

int_from_digits(t, s, chk) ==
    LET f == Fold(t, s)
    IN  IF chk /\ f.ovf # "none" THEN Panic(OverflowMsg(f.ovf)) ELSE Value(f.val)

(***************************************************************************)
(* Inputs                                                                  *)
(***************************************************************************)
Max2(a, b) == IF a >= b THEN a ELSE b
Min2(a, b) == IF a <= b THEN a ELSE b

EdgeInts == {999, 1000, 9999, 10000, 32766, 32767, 65534, 65535, -1000, -32768}
Inputs(t) ==
    (Max2(MinVal(t), -InputBound) .. Min2(MaxVal(t), InputBound))
        \cup {x \in EdgeInts \cup {MinVal(t), MaxVal(t)} : InRange(t, x)}

Digit == 0..9
EdgeSeqs == { <<6,5,5,3,5>>, <<6,5,5,3,6>>, <<7,0,0,0,0>>, <<0,0,6,5,5,3,5>>,
              <<3,2,7,6,7>>, <<3,2,7,6,8>>, <<0,0,0,0,0>>, <<1,0,0,0,0,0>> }
DigitSeqs == UNION {[1..k -> Digit] : k \in 0..MaxLen} \cup EdgeSeqs

(***************************************************************************)
(* The Digits<T> wrapper.                                                  *)
(***************************************************************************)
\* impl fmt::Display for ConversionError
Display(e) == e.details

\* mutant: a failed conversion gives an empty wrapper instead of a panic
Digits_from_lenient(i) ==
    LET r == digits_from_int(i)
    IN  [tag |-> "Digits",
         self |-> [values |-> IF r.tag = "Ok" THEN r.seq ELSE <<>>, index |-> 0]]

\* impl From<T> for Digits<T>
Digits_from(i) ==
    LET r == digits_from_int(i)
    IN  IF r.tag = "Ok"
        THEN [tag |-> "Digits", self |-> [values |-> r.seq, index |-> 0]]
        ELSE Panic(Display(r.err))

\* impl Deref for Digits<T>
deref(self) == self.values

\* Vec::len and slice::contains on the deref target
len(s) == Len(s)
contains(s, x) == \E j \in 1..Len(s) : s[j] = x

\* mutant: the cursor rewinds by itself once the end is reached
next_autoreset(self) ==
    IF self.index >= len(self.values)
    THEN [self |-> [self EXCEPT !.index = 0], out |-> None]
    ELSE LET moved == [self EXCEPT !.index = @ + 1]
         IN  [self |-> moved, out |-> Some(moved.values[(moved.index - 1) + 1])]

\* mutant: the digit is removed from the front of the vector
next_pop(self) ==
    IF self.values = <<>>
    THEN [self |-> self, out |-> None]
    ELSE [self |-> [self EXCEPT !.values = Tail(@)], out |-> Some(Head(self.values))]

\* mutant: the cursor is not advanced
next_noadvance(self) ==
    IF self.index >= len(self.values)
    THEN [self |-> self, out |-> None]
    ELSE [self |-> self, out |-> Some(self.values[self.index + 1])]

\* impl Iterator for Digits<T>: the wrapper after the call and what it returned
next(self) ==
    IF self.index >= len(self.values)
    THEN [self |-> self, out |-> None]
    ELSE LET moved == [self EXCEPT !.index = @ + 1]
         IN  [self |-> moved, out |-> Some(moved.values[(moved.index - 1) + 1])]

\* #[derive(Clone)]
Clone(self) == [values |-> self.values, index |-> self.index]

\* Iterator::cycle: Cycle { orig: iter.clone(), iter }
cycle(it) == [orig |-> Clone(it), iter |-> it]

\* Cycle::next: match self.iter.next() { None => { self.iter = self.orig.clone();
\*                                                 self.iter.next() }, y => y }
cycle_next(c) ==
    LET r == next(c.iter)
    IN  IF r.out = None
        THEN LET again == next(Clone(c.orig))
             IN  [self |-> [c EXCEPT !.iter = again.self], out |-> again.out]
        ELSE [self |-> [c EXCEPT !.iter = r.self], out |-> r.out]

NoDigits == [values |-> <<>>, index |-> 0]
NoCycle == [orig |-> NoDigits, iter |-> NoDigits]
NoSeen == [tag |-> "NoSeen"]

Init ==
    /\ pc = "idle"
    /\ T \in Types
    /\ n = 0
    /\ rem = 0
    /\ v = <<>>
    /\ iters = 0
    /\ ret = NoRet
    /\ d = <<>>
    /\ checks = FALSE
    /\ ret2 = NoRet
    /\ digits = NoDigits
    /\ hist = <<>>
    /\ seen = NoSeen
    /\ cyc = NoCycle
    /\ start = 0
    /\ chist = <<>>

(***************************************************************************)
(* A direct call of digits_from_int, one loop iteration per step.          *)
(***************************************************************************)
CallDigitsFromInt ==
    /\ pc = "idle"
    /\ \E x \in Inputs(T) :
        /\ n' = x
        /\ IF NonNegative(x)
           THEN /\ pc' = "loop"
                /\ rem' = x
                /\ v' = <<>>
                /\ ret' = ret
           ELSE /\ pc' = "returned"
                /\ ret' = Err(ConversionError_new(NegativeMsg))
                /\ UNCHANGED <<rem, v>>
    /\ UNCHANGED <<T, iters, d, checks, ret2, digits, hist, seen, cyc, start, chist>>

LoopStep ==
    /\ pc = "loop"
    /\ LoopCond(rem)
    /\ rem' = LoopBody([rem |-> rem, v |-> v]).rem
    /\ v' = LoopBody([rem |-> rem, v |-> v]).v
    /\ iters' = iters + 1
    /\ UNCHANGED <<pc, T, n, ret, d, checks, ret2, digits, hist, seen, cyc, start, chist>>

LoopExit ==
    /\ pc = "loop"
    /\ ~LoopCond(rem)
    /\ ret' = LoopResult([rem |-> rem, v |-> v])
    /\ pc' = "returned"
    /\ UNCHANGED <<T, n, rem, v, iters, d, checks, ret2, digits, hist, seen, cyc, start, chist>>

\* the caller passes the Ok vector on to int_from_digits
Recompose ==
    /\ pc = "returned"
    /\ ret.tag = "Ok"
    /\ \E chk \in BOOLEAN :
        /\ checks' = chk
        /\ d' = ret.seq
        /\ ret2' = int_from_digits(T, ret.seq, chk)
    /\ pc' = "recomposed"
    /\ UNCHANGED <<T, n, rem, v, iters, ret, digits, hist, seen, cyc, start, chist>>

(***************************************************************************)
(* A direct call of int_from_digits.                                       *)
(***************************************************************************)
CallIntFromDigits ==
    /\ pc = "idle"
    /\ \E s \in DigitSeqs, chk \in BOOLEAN :
        /\ d' = s
        /\ checks' = chk
        /\ ret' = int_from_digits(T, s, chk)
    /\ pc' = "int_returned"
    /\ UNCHANGED <<T, n, rem, v, iters, ret2, digits, hist, seen, cyc, start, chist>>

\* the caller passes the returned integer on to digits_from_int
Decompose ==
    /\ pc = "int_returned"
    /\ ret.tag = "Value"
    /\ n' = ret.val
    /\ ret2' = digits_from_int(ret.val)
    /\ pc' = "decomposed"
    /\ UNCHANGED <<T, rem, v, iters, ret, d, checks, digits, hist, seen, cyc, start, chist>>

(***************************************************************************)
(* Use of the Digits wrapper.                                              *)
(***************************************************************************)
DigitsFrom ==
    /\ pc = "idle"
    /\ \E i \in Inputs(T) :
        /\ n' = i
        /\ LET r == Digits_from(i)
           IN  IF r.tag = "Panic"
               THEN /\ pc' = "panicked"
                    /\ ret' = r
                    /\ digits' = digits
               ELSE /\ pc' = "iter"
                    /\ digits' = r.self
                    /\ ret' = ret
    /\ UNCHANGED <<T, rem, v, iters, d, checks, ret2, hist, seen, cyc, start, chist>>

CallNext ==
    /\ pc = "iter"
    /\ Len(hist) < MaxCalls
    /\ digits' = next(digits).self
    /\ hist' = Append(hist, next(digits).out)
    /\ UNCHANGED <<pc, T, n, rem, v, iters, ret, d, checks, ret2, seen, cyc, start, chist>>

\* digits.len(), the elements and digits.contains(&x), all through deref(&self);
\* `calls` notes how many next() calls came before the inspection
Inspect ==
    /\ pc = "iter"
    /\ seen' = [len |-> len(deref(digits)),
                elems |-> deref(digits),
                contains |-> [x \in Digit |-> contains(deref(digits), x)],
                calls |-> Len(hist)]
    /\ UNCHANGED <<pc, T, n, rem, v, iters, ret, d, checks, ret2, digits, hist, cyc,
                   start, chist>>

\* Digits::from(n).cycle(): the wrapper is moved into the adapter
ApplyCycle ==
    /\ pc = "iter"
    /\ cyc' = cycle(digits)
    /\ start' = digits.index
    /\ digits' = NoDigits
    /\ hist' = <<>>
    /\ seen' = NoSeen
    /\ pc' = "cycle"
    /\ UNCHANGED <<T, n, rem, v, iters, ret, d, checks, ret2, chist>>

CycleNext ==
    /\ pc = "cycle"
    /\ Len(chist) < MaxCalls
    /\ cyc' = cycle_next(cyc).self
    /\ chist' = Append(chist, cycle_next(cyc).out)
    /\ UNCHANGED <<pc, T, n, rem, v, iters, ret, d, checks, ret2, digits, hist, seen, start>>

Next ==
    \/ CallDigitsFromInt
    \/ LoopStep
    \/ LoopExit
    \/ Recompose
    \/ CallIntFromDigits
    \/ Decompose
    \/ DigitsFrom
    \/ CallNext
    \/ Inspect
    \/ ApplyCycle
    \/ CycleNext

Spec == Init /\ [][Next]_vars

\* a call that has entered the loop keeps executing: the program is sequential
LiveSpec == Spec /\ WF_vars(LoopStep) /\ WF_vars(LoopExit)

(***************************************************************************)
(* Reference notions the properties are stated with.                       *)
(***************************************************************************)
\* the number a digit vector denotes, most significant digit first
RECURSIVE PositionalValue(_)
PositionalValue(s) ==
    IF s = <<>> THEN 0
    ELSE 10 * PositionalValue(SubSeq(s, 1, Len(s) - 1)) + s[Len(s)]

\* the number of decimal digits of x >= 0
NumDigits(x) == CHOOSE k \in 1..6 : (k = 1 \/ 10 ^ (k - 1) <= x) /\ x < 10 ^ k

\* s without its leading zeros, keeping one digit
RECURSIVE StripZeros(_)
StripZeros(s) ==
    IF s = <<>> THEN <<0>>
    ELSE IF Len(s) > 1 /\ s[1] = 0 THEN StripZeros(Tail(s))
    ELSE s

NoLeadingZero(s) == Len(s) >= 1 /\ (s[1] = 0 => s = <<0>>)
ValidDigits(s) == \A j \in 1..Len(s) : s[j] \in Digit
Unsigned16 == [bits |-> 16, signed |-> FALSE]
Unsigned8 == [bits |-> 8, signed |-> FALSE]

(***************************************************************************)
(* Properties                                                              *)
(***************************************************************************)

\* C1: round trip. When the vector digits_from_int returned for a
\* non-negative n is passed to int_from_digits, the result is exactly n and no
\* product or partial sum left T's range (so the build profile is immaterial).
C1_RoundTrip ==
    pc = "recomposed" =>
        /\ n >= 0
        /\ d = ret.seq
        /\ ret2 = Value(n)
        /\ Fold(T, d).ovf = "none"

C1_Witness ==
    /\ pc = "recomposed"
    /\ T = Unsigned16
    /\ n = MaxVal(T)
    /\ checks
    /\ ret2 = Value(65535)

\* C2 as stated: for every non-empty vector d of digits whose recomposition
\* does not overflow, digits_from_int(int_from_digits(d)) is Ok(d).
C2_Original ==
    (pc = "decomposed" /\ d # <<>> /\ ValidDigits(d) /\ Fold(T, d).ovf = "none")
        => ret2 = Ok(d)

\* C2 amended: for every vector d of digits whose recomposition does not
\* overflow, digits_from_int(int_from_digits(d)) is Ok of d without its leading
\* zeros (and Ok([0]) for the empty vector); it is Ok(d) exactly when d is
\* non-empty and has no leading zero other than d = [0].
C2_ReverseRoundTrip ==
    (pc = "decomposed" /\ ValidDigits(d) /\ Fold(T, d).ovf = "none") =>
        /\ n = PositionalValue(d)
        /\ ret2 = Ok(StripZeros(d))
        /\ (NoLeadingZero(d) <=> ret2 = Ok(d))

C2_Witness ==
    /\ pc = "decomposed"
    /\ T = Unsigned16
    /\ d = <<6, 5, 5, 3, 5>>
    /\ ret2 = Ok(d)

\* C3: for a non-negative n, digits_from_int returns Ok of the base-10
\* representation of n, most significant digit first: non-empty, every element
\* in 0..9, first element non-zero unless n = 0, [0] for n = 0, and the
\* vector denotes n.
C3_Decimal ==
    (pc = "returned" /\ n >= 0) =>
        /\ ret.tag = "Ok"
        /\ Len(ret.seq) >= 1
        /\ ValidDigits(ret.seq)
        /\ (ret.seq[1] = 0 => n = 0)
        /\ (n = 0 => ret.seq = <<0>>)
        /\ PositionalValue(ret.seq) = n
        /\ (n = 42 => ret.seq = <<4, 2>>)
        /\ (n = 255 => ret.seq = <<2, 5, 5>>)
        /\ ret = digits_from_int(n)

C3_Witness ==
    /\ pc = "returned"
    /\ n = 65535
    /\ ret = Ok(<<6, 5, 5, 3, 5>>)

\* C4: digits_from_int returns Err(ConversionError) with the message "unable
\* to convert from negative integer to digits" if and only if n < 0; then no
\* digit was produced, and every n >= 0 gives Ok. Errors are compared by their
\* message.
C4_NegativeError ==
    pc = "returned" =>
        /\ (n < 0 <=> ret.tag = "Err")
        /\ (n >= 0 <=> ret.tag = "Ok")
        /\ (n < 0 =>
                /\ ret = Err([details |->
                                "unable to convert from negative integer to digits"])
                /\ v = <<>>
                /\ iters = 0)

C4_Witness ==
    /\ pc = "returned"
    /\ n = -42
    /\ ret.tag = "Err"

\* C5 as stated: int_from_digits returns a value, without failing, for every
\* vector of digits in 0..9, also when a product or the sum exceeds T's maximum.
C5_Original ==
    (pc = "int_returned" /\ ValidDigits(d)) => ret.tag = "Value"

\* C5 amended: for a vector of digits in 0..9 (the empty one included)
\* int_from_digits returns the number the vector denotes whenever that number
\* is at most T's maximum (no product or partial sum exceeds it then). When it
\* is larger, a build without overflow checks returns it wrapped modulo
\* 2^bits, and a build with overflow checks panics.
C5_Totality ==
    (pc = "int_returned" /\ ValidDigits(d)) =>
        IF PositionalValue(d) <= MaxVal(T)
        THEN ret = Value(PositionalValue(d)) /\ Fold(T, d).ovf = "none"
        ELSE IF checks
        THEN ret.tag = "Panic" /\ Fold(T, d).ovf # "none"
        ELSE ret = Value(Wrap(T, PositionalValue(d)))

C5_Witness ==
    /\ pc = "int_returned"
    /\ T = Unsigned8
    /\ d = <<2, 5, 6>>
    /\ checks
    /\ ret = Panic("attempt to add with overflow")

\* C6: with digits_from_int(n) = [d1..dk], the first k calls of next on the
\* wrapper return Some(d1) .. Some(dk) in order and every later call returns
\* None; the cursor is min(number of calls, k), stays within 0..k and never
\* moves backwards.
C6_NextInOrder ==
    /\ [](pc = "iter" =>
            LET ds == digits_from_int(n).seq
                k == Len(ds)
            IN  /\ \A j \in 1..Len(hist) :
                     hist[j] = IF j <= k THEN Some(ds[j]) ELSE None
                /\ 0 <= digits.index /\ digits.index <= k
                /\ digits.index = Min2(Len(hist), k)
                /\ len(digits.values) = k)
    /\ [][(pc = "iter" /\ pc' = "iter") => digits'.index >= digits.index]_vars

C6_Witness ==
    /\ pc = "iter"
    /\ n = 42
    /\ hist = <<Some(4), Some(2), None, None>>
    /\ digits.index = 2

\* C7: whatever number of next calls was made, the vector seen through deref
\* (its length, its elements, contains(x) for each x) is digits_from_int(n);
\* an inspection changes neither the cursor nor the vector, and next changes
\* only the cursor.
C7_DerefIndependent ==
    /\ [](pc = "iter" =>
            LET ds == digits_from_int(n).seq
            IN  /\ deref(digits) = ds
                /\ seen # NoSeen =>
                     /\ seen.len = Len(ds)
                     /\ seen.elems = ds
                     /\ \A x \in Digit :
                          seen.contains[x] <=> (\E j \in 1..Len(ds) : ds[j] = x))
    /\ [][(pc = "iter" /\ pc' = "iter" /\ seen' # seen)
            => (digits' = digits /\ hist' = hist)]_vars
    /\ [][(pc = "iter" /\ pc' = "iter" /\ hist' # hist)
            => (digits'.values = digits.values /\ seen' = seen)]_vars

C7_Witness ==
    /\ pc = "iter"
    /\ n = 369
    /\ Len(hist) = 5
    /\ seen # NoSeen
    /\ seen.calls = 4
    /\ seen.len = 3
    /\ seen.contains[3]
    /\ ~seen.contains[4]

\* C8: the cycling adapter over a freshly constructed wrapper never returns
\* None: with digits_from_int(n) = [d1..dk], its j-th call (j = 0, 1, ..)
\* returns Some(d[(j mod k) + 1]).
C8_CycleRepeats ==
    (pc = "cycle" /\ start = 0) =>
        LET ds == digits_from_int(n).seq
            k == Len(ds)
        IN  /\ k >= 1
            /\ \A j \in 0..(Len(chist) - 1) :
                 chist[j + 1] = Some(ds[(j % k) + 1])

C8_Witness ==
    /\ pc = "cycle"
    /\ start = 0
    /\ n = 42
    /\ chist = <<Some(4), Some(2), Some(4), Some(2), Some(4), Some(2)>>

\* C9: Digits::from(i) panics with the ConversionError message for a negative
\* i and produces no wrapper; for i >= 0 it produces the wrapper whose values
\* are digits_from_int(i) and whose cursor is 0.
C9_FromPanics ==
    /\ pc = "panicked" =>
         /\ n < 0
         /\ ret = Panic("unable to convert from negative integer to digits")
         /\ digits = NoDigits
    /\ pc \in {"iter", "cycle"} => n >= 0
    /\ (pc = "iter" /\ hist = <<>>) =>
         digits = [values |-> digits_from_int(n).seq, index |-> 0]

C9_Witness ==
    /\ pc = "panicked"
    /\ n = -42
    /\ ret.tag = "Panic"

\* C10: for a non-negative n the loop of digits_from_int terminates: every
\* iteration strictly decreases rem, the loop runs NumDigits(n) - 1 times, the
\* value left after it is below ten, and the returned vector has NumDigits(n)
\* elements (at most the number of digits of T's maximum).
C10_LoopTerminates ==
    /\ [][(pc = "loop" /\ pc' = "loop") =>
            (rem' < rem /\ rem' >= 0 /\ iters' = iters + 1)]_vars
    /\ [](pc = "loop" => iters <= NumDigits(n) - 1)
    /\ []((pc = "returned" /\ n >= 0) =>
            /\ iters = NumDigits(n) - 1
            /\ rem < 10
            /\ ret.tag = "Ok"
            /\ Len(ret.seq) = NumDigits(n)
            /\ Len(ret.seq) <= NumDigits(MaxVal(T)))
    /\ (pc = "loop") ~> (pc = "returned")

C10_Witness ==
    /\ pc = "returned"
    /\ n = 65535
    /\ iters = 4
    /\ rem = 6
    /\ Len(ret.seq) = 5
====
